---- MODULE Spec2Model ----
(***************************************************************************)
(* A model of acb.py (src/acb/acb.py): the AFS2 sub-archive parser         *)
(* (AFSArchive), the cue/waveform join (TrackList), the ACBFile object     *)
(* with its retrieval pipeline and close(), and the oneshot extract_acb.   *)
(*                                                                         *)
(* Three specifications share the module:                                  *)
(*   SpecAFS        AFSArchive.__init__ and file_data_for_cue_id           *)
(*   SpecTrackList  TrackList.__init__, one step per loop iteration        *)
(*   Spec           an ACBFile driven through its public methods, or by    *)
(*                  extract_acb                                            *)
(* Python's None is the string "None"; the module-level sentinel           *)
(* Uninitialized is the string "Uninitialized".                            *)
(***************************************************************************)
EXTENDS Integers, Sequences, FiniteSets, TLC

VARIABLES
    afs_in,     \* the bytes handed to AFSArchive, already split into fields
    afs,        \* the AFSArchive object under construction / constructed
    afs_read,   \* outcome of the last file_data_for_cue_id call
    utf,        \* TrackList's input: the rows of the four sub-tables
    tl_pc,      \* position of TrackList.__init__: "cue", "wave", "done", "error"
    cue_pos,    \* number of cue rows the outer loop has taken
    i,          \* inner loop variable i
    wav_idx,    \* the cursor into syns.rows
    tracks,     \* self.tracks (TrackList); acb.track_list.tracks (ACBFile)
    args,       \* the arguments ACBFile / extract_acb was called with
    acb,        \* the ACBFile object: its attributes
    pc,         \* "live", "deleted" for a caller-driven ACBFile; position of extract_acb
    last,       \* the last call made on the ACBFile and its outcome
    close_calls,\* number of close() calls made on each byte source
    ctx_built,  \* number of DisarmContext objects constructed per archive
    ex_log,     \* extract_acb: indexes of the tracks get_track_data was called for
    out_files   \* extract_acb: the files opened for writing, with what was written

afs_vars == <<afs_in, afs, afs_read>>
tl_vars == <<utf, tl_pc, cue_pos, i, wav_idx>>
acb_vars == <<args, acb, pc, last, close_calls, ctx_built, ex_log, out_files>>

vars == <<afs_in, afs, afs_read, utf, tl_pc, cue_pos, i, wav_idx, tracks,
          args, acb, pc, last, close_calls, ctx_built, ex_log, out_files>>

None == "None"

\* An optional integer (a column that may be missing, `int | None`) is <<>>
\* when it is None and <<v>> when it is the integer v.
NoInt == <<>>
SomeInt(v) == <<v>>

(***************************************************************************)
(* Bounds of the model.                                                    *)
(***************************************************************************)
MaxFiles == 2        \* file_count of a modelled archive is 0..MaxFiles
MaxOff == 4          \* raw offsets are drawn from 0..MaxOff (and the field's top value)
MaxAlign == 4        \* alignment field is drawn from 0..MaxAlign
MaxCueId == 2        \* cue ids asked for are drawn from 0..MaxCueId
MaxCues == 2         \* a cue table has 0..MaxCues rows
MaxCount == 2        \* NumRelatedWaveforms is drawn from 0..MaxCount
MaxSyns == 4         \* a synthesis-reference table has 0..MaxSyns rows
MaxTracks == 2       \* extract_acb runs over a track list of 0..MaxTracks tracks

(***************************************************************************)
(* Python integer operators used by the parser.                            *)
(***************************************************************************)

\* a & b for non-negative a and b (Python ints, no width).
RECURSIVE BitAnd(_, _)
BitAnd(a, b) ==
    IF a = 0 \/ b = 0 THEN 0
    ELSE (IF a % 2 = 1 /\ b % 2 = 1 THEN 1 ELSE 0) + 2 * BitAnd(a \div 2, b \div 2)

\* x & ~m on Python's unbounded two's-complement ints.  ~m is -m-1.
\*   m >= 0, x >= 0 : ~m has every bit set except m's, so x & ~m clears m's bits of x
\*   m = -1         : ~m = 0, the result is 0 whatever x is
AndNot(x, m) ==
    IF m = -1 THEN 0 ELSE x - BitAnd(x, m)

\* int("FF" * size, 16): the all-ones value of `size` bytes.  It is kept as
\* its number of 0xFF bytes (0xFFFFFFFF does not fit TLC's 32-bit integers).
\* int("", 16) raises ValueError (OffsetMaskFails).
OffsetMaskFails(size) == size = 0

OffsetMask(size) == size

\* x & mask, for x >= 0 and a mask of `mask` 0xFF bytes: the low bytes of x.
RECURSIVE MaskOff(_, _)
MaskOff(x, mask) ==
    IF mask = 0 THEN 0 ELSE (x % 256) + 256 * MaskOff(x \div 256, mask - 1)

align_off_by_one(n, number) == AndNot(number + n, n - 1)

\* align(n)(number)
align(n, number) == AndNot(number + n - 1, n - 1)

\* AFSArchive._struct_format
struct_format(size) ==
    IF size = 2 THEN "H"
    ELSE IF size = 4 THEN "I"
    ELSE "error"

AFS2_MAGIC == 1095127858    \* 0x41465332

(***************************************************************************)
(* AFSArchive.create_file_entries: the list of afs2_file_ent_t.            *)
(***************************************************************************)
unaligned_offs(raw_offs, offset_mask) ==
    [k \in 1..Len(raw_offs) |-> MaskOff(raw_offs[k], offset_mask)]

aligned_offs(alignment, raw_offs, offset_mask) ==
    [k \in 1..Len(raw_offs) |-> align(alignment, unaligned_offs(raw_offs, offset_mask)[k])]

\* lengths: zip(aligned_offs, unaligned_offs[1:]) -> next_offset - my_offset
lengths(alignment, raw_offs, offset_mask) ==
    [k \in 1..(Len(raw_offs) - 1) |->
        unaligned_offs(raw_offs, offset_mask)[k + 1]
            - aligned_offs(alignment, raw_offs, offset_mask)[k]]

Min2(a, b) == IF a < b THEN a ELSE b

create_file_entries(alignment, cue_ids, raw_offs, offset_mask) ==
    [k \in 1..Min2(Len(cue_ids), Len(raw_offs) - 1) |->
        [cue_id |-> cue_ids[k],
         offset |-> aligned_offs(alignment, raw_offs, offset_mask)[k],
         size   |-> lengths(alignment, raw_offs, offset_mask)[k]]]

(***************************************************************************)
(* Inputs of the archive parser.  struct reads every offset with the       *)
(* format of its width, so a raw offset is below 256^offset_size.          *)
(***************************************************************************)
SeqsOfLen(S, n) == [1..n -> S]

\* Small offsets, offsets around a 32-byte boundary, and the top value of a
\* 2-byte offset field.
RawOffsets == (0..MaxOff) \cup {31, 32, 65535}

Alignments == (0..MaxAlign) \cup {32}

\* The ID table of an archive of n files: distinct ids, or one id repeated.
CueIdLists(n) == {[k \in 1..n |-> k - 1], [k \in 1..n |-> 0]}

\* version tags (first byte: format, second: offset width, third: id width)
GoodVersions == {<<1, 2, 2>>, <<2, 2, 2>>, <<2, 4, 4>>}
BadVersions == {<<2, 3, 2>>, <<2, 2, 1>>, <<2, 0, 2>>}

AFSInputs ==
    UNION { [magic      : {AFS2_MAGIC},
             version    : {<<2, 2, 2>>},
             file_count : {n},
             alignment  : Alignments,
             mix_key    : {7},
             cue_ids    : CueIdLists(n),
             raw_offs   : SeqsOfLen(RawOffsets, n + 1)] : n \in 0..MaxFiles }
    \cup
    [magic      : {AFS2_MAGIC, 0},
     version    : BadVersions \cup GoodVersions,
     file_count : {1},
     alignment  : {1, 32},
     mix_key    : {7},
     cue_ids    : {<<0>>},
     raw_offs   : {<<0, 1>>, <<31, 65535>>}]

NoArchive == [status |-> "new"]
NoRead == [status |-> "none"]

AFSIdle ==
    /\ afs_in = None
    /\ afs = NoArchive
    /\ afs_read = NoRead

TLIdle ==
    /\ utf = None
    /\ tl_pc = "idle"
    /\ cue_pos = 0
    /\ i = 0
    /\ wav_idx = 0

ACBIdle ==
    /\ args = None
    /\ acb = None
    /\ pc = "idle"
    /\ last = None
    /\ close_calls = None
    /\ ctx_built = None
    /\ ex_log = <<>>
    /\ out_files = <<>>

AFSInit ==
    /\ afs_in \in AFSInputs
    /\ afs = NoArchive
    /\ afs_read = NoRead
    /\ TLIdle
    /\ tracks = <<>>
    /\ ACBIdle

\* AFSArchive.__init__, with the create_file_entries call it ends in.
AFSArchiveOf(in) ==
    IF in.magic # AFS2_MAGIC THEN [status |-> "error", why |-> "bad magic"]
    ELSE IF OffsetMaskFails(in.version[2])
        THEN [status |-> "error", why |-> "int() of empty string"]
    ELSE IF struct_format(in.version[3]) = "error" \/ struct_format(in.version[2]) = "error"
        THEN [status |-> "error", why |-> "Cannot deal with size"]
    ELSE [status      |-> "ok",
          alignment   |-> in.alignment,
          mix_key     |-> IF in.version[1] >= 2 THEN SomeInt(in.mix_key) ELSE NoInt,
          offset_size |-> in.version[2],
          offset_mask |-> OffsetMask(in.version[2]),
          files       |-> create_file_entries(in.alignment, in.cue_ids, in.raw_offs,
                                              OffsetMask(in.version[2]))]

AFSArchiveInit ==
    /\ afs.status = "new"
    /\ afs' = AFSArchiveOf(afs_in)
    /\ UNCHANGED <<afs_in, afs_read>>
    /\ UNCHANGED <<tl_vars, tracks, acb_vars>>

\* Index of the first entry of files whose cue_id matches, 0 when none does.
FirstMatch(files, cue_id) ==
    IF \E k \in 1..Len(files) : files[k].cue_id = cue_id
    THEN CHOOSE k \in 1..Len(files) :
            /\ files[k].cue_id = cue_id
            /\ \A j \in 1..(k - 1) : files[j].cue_id # cue_id
    ELSE 0

\* AFSArchive.file_data_for_cue_id: the outcomes of one call.  bytearray(size)
\* raises ValueError for a negative size; with rw=False the read is done by
\* the external reader, whose behaviour on a negative size is not fixed here.
file_data_for_cue_id(files, cue_id, rw) ==
    LET k == FirstMatch(files, cue_id) IN
    IF k = 0 THEN {[status |-> "error", why |-> "not found"]}
    ELSE IF files[k].size < 0 /\ rw
        THEN {[status |-> "error", why |-> "negative count"]}
    ELSE IF files[k].size < 0
        THEN {[status |-> "error", why |-> "reader"],
              [status |-> "ok", cue_id |-> cue_id, offset |-> files[k].offset,
               size |-> files[k].size]}
    ELSE {[status |-> "ok", cue_id |-> cue_id, offset |-> files[k].offset,
           size |-> files[k].size]}

AFSFileData ==
    /\ afs.status = "ok"
    /\ \E cue_id \in 0..MaxCueId, rw \in BOOLEAN :
          afs_read' \in file_data_for_cue_id(afs.files, cue_id, rw)
    /\ UNCHANGED <<afs_in, afs>>
    /\ UNCHANGED <<tl_vars, tracks, acb_vars>>

AFSNext ==
    \/ AFSArchiveInit
    \/ AFSFileData

SpecAFS == AFSInit /\ [][AFSNext]_vars

(***************************************************************************)
(* TrackList.__init__                                                      *)
(***************************************************************************)

\* Decimal digits and the format spec :02 (zero-padded to width 2).
DigitChar(d) == <<"0", "1", "2", "3", "4", "5", "6", "7", "8", "9">>[d + 1]

RECURSIVE Decimal(_)
Decimal(n) ==
    IF n < 10 THEN DigitChar(n) ELSE Decimal(n \div 10) \o DigitChar(n % 10)

Format02(n) == IF n < 10 THEN "0" \o Decimal(n) ELSE Decimal(n)

\* name_map.get(index, default) after the loop over nams.rows: a later row
\* with the same CueIndex replaces an earlier one.
name_map_get(nams, index, default) ==
    IF \E k \in 1..Len(nams) : nams[k].CueIndex = index
    THEN nams[CHOOSE k \in 1..Len(nams) :
                /\ nams[k].CueIndex = index
                /\ \A j \in (k + 1)..Len(nams) : nams[j].CueIndex # index].CueName
    ELSE default

\* struct.unpack(">HH", r_data)[1]: the second big-endian 16-bit integer.
unpack_b(r_data) == r_data[3] * 256 + r_data[4]

name_suffix_always(count, n) == "_" \o Format02(n + 1)

\* ("" if row["NumRelatedWaveforms"] == 1 else f"_{i+1:02}")
name_suffix(count, n) == IF count = 1 THEN "" ELSE "_" \o Format02(n + 1)

\* the track_t appended for cue row `row`, inner index n and waveform row w
make_track(nams, row, n, w) ==
    [cue_id    |-> IF w.Streaming # 0 THEN w.StreamAwbId
                   ELSE IF w.Id # NoInt THEN w.Id[1] ELSE w.MemoryAwbId,
     name      |-> name_map_get(nams, row.ReferenceIndex, "UNKNOWN")
                       \o name_suffix(row.NumRelatedWaveforms, n),
     enc_type  |-> w.EncodeType,
     is_stream |-> w.Streaming]

next_wav_idx_skip(w) == w + 2

\* wav_idx += 1
next_wav_idx(w) == w + 1

CueRows ==
    [ReferenceType : {3}, NumRelatedWaveforms : 0..MaxCount, ReferenceIndex : {0, 1}]
    \cup
    [ReferenceType : {8, 5}, NumRelatedWaveforms : {1}, ReferenceIndex : {0}]

NameTables ==
    { <<>>,
      <<[CueIndex |-> 0, CueName |-> "bgm"]>>,
      <<[CueIndex |-> 1, CueName |-> "se"], [CueIndex |-> 0, CueName |-> "old"],
        [CueIndex |-> 0, CueName |-> "bgm"]>> }

\* Waveform rows: memory waveform without an Id column, memory waveform with
\* one, streamed waveform.  Streaming is the table's integer flag.
WavMem == [Id |-> NoInt, MemoryAwbId |-> 0, StreamAwbId |-> 65535, EncodeType |-> 2, Streaming |-> 0]
WavId == [Id |-> SomeInt(1), MemoryAwbId |-> 9, StreamAwbId |-> 65535, EncodeType |-> 0, Streaming |-> 0]
WavStream == [Id |-> NoInt, MemoryAwbId |-> 65535, StreamAwbId |-> 2, EncodeType |-> 2, Streaming |-> 1]

WavTables ==
    { <<WavMem>>, <<WavMem, WavStream>>, <<WavStream, WavId, WavMem>> }

\* Synthesis-reference tables: L rows whose second integer cycles through m
\* waveform indexes.
SynTables ==
    { [k \in 1..L |-> <<0, 1, 0, (k - 1) % m>>] : L \in 0..MaxSyns, m \in 1..3 }

TLInputs ==
    UNION { [cues : SeqsOfLen(CueRows, n),
             nams : NameTables,
             wavs : WavTables,
             syns : SynTables] : n \in 0..MaxCues }

TLInit ==
    /\ utf \in TLInputs
    /\ tl_pc = "cue"
    /\ cue_pos = 0
    /\ i = 0
    /\ wav_idx = 0
    /\ tracks = <<>>
    /\ AFSIdle
    /\ ACBIdle

\* for row in cues.rows: the ReferenceType check, and the inner loop entered
TLNextCue ==
    /\ tl_pc = "cue"
    /\ cue_pos < Len(utf.cues)
    /\ LET row == utf.cues[cue_pos + 1] IN
          IF row.ReferenceType \notin {3, 8}
          THEN /\ tl_pc' = "error"
               /\ UNCHANGED <<cue_pos, i>>
          ELSE /\ cue_pos' = cue_pos + 1
               /\ i' = 0
               /\ tl_pc' = IF row.NumRelatedWaveforms > 0 THEN "wave" ELSE "cue"
    /\ UNCHANGED <<utf, wav_idx, tracks>>
    /\ UNCHANGED <<afs_vars, acb_vars>>

\* one pass of the body of `for i in range(row["NumRelatedWaveforms"])`
TLWaveform ==
    /\ tl_pc = "wave"
    /\ LET row == utf.cues[cue_pos] IN
          IF wav_idx + 1 > Len(utf.syns)
          THEN \* syns.rows[wav_idx]: IndexError
               /\ tl_pc' = "error"
               /\ UNCHANGED <<i, wav_idx, tracks>>
          ELSE LET b == unpack_b(utf.syns[wav_idx + 1]) IN
               /\ wav_idx' = next_wav_idx(wav_idx)
               /\ IF b + 1 > Len(utf.wavs)
                  THEN \* wavs.rows[b]: IndexError
                       /\ tl_pc' = "error"
                       /\ UNCHANGED <<i, tracks>>
                  ELSE /\ tracks' = Append(tracks,
                                           make_track(utf.nams, row, i, utf.wavs[b + 1]))
                       /\ i' = i + 1
                       /\ tl_pc' = IF i + 1 < row.NumRelatedWaveforms
                                   THEN "wave" ELSE "cue"
    /\ UNCHANGED <<utf, cue_pos>>
    /\ UNCHANGED <<afs_vars, acb_vars>>

\* after the loop: if len(wavs.rows) > len(self.tracks): raise ValueError
TLFinish ==
    /\ tl_pc = "cue"
    /\ cue_pos = Len(utf.cues)
    /\ tl_pc' = IF Len(utf.wavs) > Len(tracks) THEN "error" ELSE "done"
    /\ UNCHANGED <<utf, cue_pos, i, wav_idx, tracks>>
    /\ UNCHANGED <<afs_vars, acb_vars>>

TLNext ==
    \/ TLNextCue
    \/ TLWaveform
    \/ TLFinish

SpecTrackList == TLInit /\ [][TLNext]_vars

(***************************************************************************)
(* Properties of the archive parser (checked under SpecAFS).               *)
(***************************************************************************)
IsPowerOfTwo(n) == \E e \in 0..15 : n = 2 ^ e

\* m is the smallest multiple of n that is >= x
SmallestMultipleAtLeast(m, n, x) ==
    /\ m % n = 0
    /\ m >= x
    /\ m - x < n

\* C6: every entry of a successfully parsed AFSArchive has size >= 0 (an
\* input whose derived length is negative is rejected by the parse).
C6_LengthsNonNegative ==
    afs.status = "ok" => \A k \in 1..Len(afs.files) : afs.files[k].size >= 0

\* C7: when the alignment is a power of two, every entry's offset is the
\* smallest multiple of the alignment that is >= its masked raw offset; so
\* it is a multiple of the alignment, and an aligned raw offset is kept.
C7_AlignedOffsets ==
    (afs.status = "ok" /\ IsPowerOfTwo(afs.alignment)) =>
        \A k \in 1..Len(afs.files) :
            LET raw == MaskOff(afs_in.raw_offs[k], afs.offset_mask) IN
            /\ SmallestMultipleAtLeast(afs.files[k].offset, afs.alignment, raw)
            /\ afs.files[k].offset % afs.alignment = 0
            /\ (raw % afs.alignment = 0 => afs.files[k].offset = raw)

\* a parsed archive, alignment 4, holding one entry moved up by the
\* alignment and one that was aligned already
C7_Witness ==
    /\ afs.status = "ok"
    /\ afs.alignment = 4
    /\ Len(afs.files) = 2
    /\ afs_in.raw_offs[1] = 1 /\ afs.files[1].offset = 4
    /\ afs_in.raw_offs[2] = 4 /\ afs.files[2].offset = 4

(***************************************************************************)
(* Properties of TrackList (checked under SpecTrackList).                  *)
(***************************************************************************)
RECURSIVE SumCounts(_, _)
\* NumRelatedWaveforms summed over the first c cue rows
SumCounts(cues, c) ==
    IF c = 0 THEN 0 ELSE SumCounts(cues, c - 1) + cues[c].NumRelatedWaveforms

\* the cue row that track k (1-based) belongs to when every cue row, in
\* table order, contributes NumRelatedWaveforms consecutive tracks
CueOfTrack(cues, k) ==
    CHOOSE c \in 1..Len(cues) : SumCounts(cues, c - 1) < k /\ k <= SumCounts(cues, c)

TwoDigitSuffix ==
    <<"_01", "_02", "_03", "_04", "_05", "_06", "_07", "_08", "_09", "_10">>

\* the names a cue row may be given: the names the name table holds for its
\* index, or UNKNOWN when it holds none
BaseNames(nams, row) ==
    IF \E n \in 1..Len(nams) : nams[n].CueIndex = row.ReferenceIndex
    THEN {nams[n].CueName : n \in {m \in 1..Len(nams) : nams[m].CueIndex = row.ReferenceIndex}}
    ELSE {"UNKNOWN"}

TLRunning == tl_pc \in {"cue", "wave", "done"}

\* C5: a track of a cue row with NumRelatedWaveforms = 1 is named by the
\* cue's base name alone; the j-th track of a cue row with more waveforms
\* is named base_0j; the base is the mapped name, or UNKNOWN without one.
C5_TrackNames ==
    tl_pc # "idle" =>
        \A k \in 1..Len(tracks) :
            LET c == CueOfTrack(utf.cues, k)
                row == utf.cues[c]
                j == k - SumCounts(utf.cues, c - 1)
            IN \E base \in BaseNames(utf.nams, row) :
                  tracks[k].name =
                      IF row.NumRelatedWaveforms = 1 THEN base
                      ELSE base \o TwoDigitSuffix[j]

\* a finished list holding UNKNOWN_01, UNKNOWN_02 of one unnamed cue and
\* the unsuffixed track of a named cue with a single waveform
C5_Witness ==
    /\ tl_pc = "done"
    /\ Len(tracks) = 3
    /\ tracks[1].name = "UNKNOWN_01"
    /\ tracks[2].name = "UNKNOWN_02"
    /\ tracks[3].name = "bgm"

\* the fields of track k are those of the waveform row named by
\* synthesis-reference row k (0-based k-1)
TrackFromSynRow(k) ==
    /\ k <= Len(utf.syns)
    /\ unpack_b(utf.syns[k]) + 1 <= Len(utf.wavs)
    /\ LET w == utf.wavs[unpack_b(utf.syns[k]) + 1] IN
          /\ tracks[k].enc_type = w.EncodeType
          /\ tracks[k].is_stream = w.Streaming
          /\ tracks[k].cue_id \in {w.StreamAwbId, w.MemoryAwbId} \cup
                                  {w.Id[n] : n \in 1..Len(w.Id)}

\* C9: the cursor equals the number of descriptors produced (it starts at
\* 0, moves by one per descriptor, is never reset or skipped), descriptor k
\* comes from synthesis-reference row k, descriptors are grouped by cue in
\* cue-table order, and a finished list has sum(NumRelatedWaveforms) entries.
C9_Cursor ==
    TLRunning =>
        /\ wav_idx = Len(tracks)
        /\ \A k \in 1..Len(tracks) : TrackFromSynRow(k)
        /\ tl_pc = "wave" => Len(tracks) = SumCounts(utf.cues, cue_pos - 1) + i
        /\ tl_pc \in {"cue", "done"} => Len(tracks) = SumCounts(utf.cues, cue_pos)
        /\ tl_pc = "done" => Len(tracks) = SumCounts(utf.cues, Len(utf.cues))

\* a finished list of three descriptors from two cue rows, taken from three
\* different synthesis-reference rows
C9_Witness ==
    /\ tl_pc = "done"
    /\ cue_pos = 2
    /\ wav_idx = 3
    /\ Len(tracks) = 3
    /\ tracks[1].is_stream = 1 /\ tracks[2].is_stream = 0 /\ tracks[2].enc_type = 0
    /\ tracks[3].enc_type = 2

(***************************************************************************)
(* ACBFile                                                                 *)
(***************************************************************************)
Uninitialized == [kind |-> "Uninitialized"]     \* the module's sentinel object
NoneCtx == [kind |-> "None"]                    \* a disarm attribute that is None
NoneArchive == [status |-> "None"]              \* embedded_awb / external_awb = None
NoBuf == [src |-> "none"]

\* A call's outcome carries the events it caused, in order:
\*   [ev |-> "close",         what |-> "acb" | "awb"]        file object closed
\*   [ev |-> "lookup",        what |-> "embedded" | "external"]
\*   [ev |-> "DisarmContext", what |-> "embedded" | "external"]  context built
\*   [ev |-> "disarm",        what |-> ..., arg |-> BOOLEAN]  transform invoked
Count(events, ev, what) ==
    Cardinality({k \in 1..Len(events) : events[k].ev = ev /\ events[k].what = what})

CountEv(events, ev) ==
    Cardinality({k \in 1..Len(events) : events[k].ev = ev})

\* DisarmContext(key, subkey): the transform context, an external collaborator
DisarmContext(key, subkey) ==
    [kind |-> "DisarmContext", key |-> key, subkey |-> subkey]

\* DisarmContext.disarm(buf, arg): transforms buf in place.  The buffer keeps
\* the list of transforms applied to the stored bytes.
disarm_apply(ctx, buf, arg) ==
    [buf EXCEPT !.applied = Append(@, [ctx |-> ctx, arg |-> arg])]

\* truthiness of hca_keys (str | None)
KeysTruthy(keys) == keys # None /\ keys # ""

\* _get_file_obj: a path is opened and owned, an open file object is neither
get_file_obj(name) ==
    IF name = "path" THEN [handle |-> "file", owned |-> TRUE]
    ELSE [handle |-> "file", owned |-> FALSE]

\* ACBFile.__init__ (the track list is built by TrackList)
ACBFileInit(a) ==
    [acb_handle       |-> get_file_obj(a.acb_file).handle,
     acb_handle_owned |-> get_file_obj(a.acb_file).owned,
     awb_handle       |-> IF a.extern_awb = None THEN None
                          ELSE get_file_obj(a.extern_awb).handle,
     awb_handle_owned |-> IF a.extern_awb = None THEN FALSE
                          ELSE get_file_obj(a.extern_awb).owned,
     embedded_awb     |-> IF Len(a.AwbFile) > 0 THEN AFSArchiveOf(a.AwbFile[1])
                          ELSE NoneArchive,
     external_awb     |-> IF a.extern_awb # None THEN AFSArchiveOf(a.awb_bytes)
                          ELSE NoneArchive,
     hca_keys         |-> a.hca_keys,
     embedded_disarm  |-> Uninitialized,
     external_disarm  |-> Uninitialized,
     closed           |-> FALSE]

get_embedded_disarm_rebuild(self) ==
    IF KeysTruthy(self.hca_keys) /\ self.embedded_awb # NoneArchive
    THEN [self   |-> [self EXCEPT !.embedded_disarm =
                         DisarmContext(self.hca_keys, self.embedded_awb.mix_key)],
          value  |-> DisarmContext(self.hca_keys, self.embedded_awb.mix_key),
          events |-> <<[ev |-> "DisarmContext", what |-> "embedded"]>>]
    ELSE [self   |-> [self EXCEPT !.embedded_disarm = NoneCtx],
          value  |-> NoneCtx,
          events |-> <<>>]

\* ACBFile.get_embedded_disarm
get_embedded_disarm(self) ==
    IF self.embedded_disarm = Uninitialized
    THEN IF KeysTruthy(self.hca_keys) /\ self.embedded_awb # NoneArchive
         THEN [self   |-> [self EXCEPT !.embedded_disarm =
                              DisarmContext(self.hca_keys, self.embedded_awb.mix_key)],
               value  |-> DisarmContext(self.hca_keys, self.embedded_awb.mix_key),
               events |-> <<[ev |-> "DisarmContext", what |-> "embedded"]>>]
         ELSE [self   |-> [self EXCEPT !.embedded_disarm = NoneCtx],
               value  |-> NoneCtx,
               events |-> <<>>]
    ELSE [self |-> self, value |-> self.embedded_disarm, events |-> <<>>]

\* ACBFile.get_external_disarm
get_external_disarm(self) ==
    IF self.external_disarm = Uninitialized
    THEN IF KeysTruthy(self.hca_keys) /\ self.external_awb # NoneArchive
         THEN [self   |-> [self EXCEPT !.external_disarm =
                              DisarmContext(self.hca_keys, self.external_awb.mix_key)],
               value  |-> DisarmContext(self.hca_keys, self.external_awb.mix_key),
               events |-> <<[ev |-> "DisarmContext", what |-> "external"]>>]
         ELSE [self   |-> [self EXCEPT !.external_disarm = NoneCtx],
               value  |-> NoneCtx,
               events |-> <<>>]
    ELSE [self |-> self, value |-> self.external_disarm, events |-> <<>>]

never_closed(self) == FALSE

\* if self.closed: raise ValueError("ACBFile is closed")
is_closed(self) == self.closed

\* if disarm is True and not disarmer: raise ValueError
disarm_refused(disarm_arg, disarmer) ==
    disarm_arg = "True" /\ disarmer = NoneCtx

disarm_whenever_possible(disarm_arg, disarmer) == disarmer # NoneCtx

\* if disarm is None: disarm = disarmer is not None
\* if disarm and disarmer: ...
disarm_applies(disarm_arg, disarmer) ==
    LET d == IF disarm_arg = None THEN disarmer # NoneCtx ELSE disarm_arg = "True"
    IN d /\ disarmer # NoneCtx

disarm_argument_unmask(unmask) == unmask

\* the second argument of disarmer.disarm(buf, not unmask)
disarm_argument(unmask) == ~unmask

Failed(self, why, events) ==
    [self |-> self, status |-> "error", why |-> why, buf |-> NoBuf, events |-> events]

\* the part of get_track_data after buf and disarmer are set
finish_track_data(self, which, buf, disarmer, disarm_arg, unmask, events) ==
    IF disarm_refused(disarm_arg, disarmer)
    THEN Failed(self, "Disarm was explicitly requested, but no keys were provided", events)
    ELSE IF disarm_applies(disarm_arg, disarmer)
         THEN [self   |-> self,
               status |-> "ok",
               why    |-> "",
               buf    |-> disarm_apply(disarmer, buf, disarm_argument(unmask)),
               events |-> Append(events, [ev |-> "disarm", what |-> which,
                                          arg |-> disarm_argument(unmask)])]
         ELSE [self |-> self, status |-> "ok", why |-> "", buf |-> buf,
               events |-> events]

\* archive.file_data_for_cue_id(track.cue_id, rw=True)
read_rw(archive, cue_id) ==
    CHOOSE r \in file_data_for_cue_id(archive.files, cue_id, TRUE) : TRUE

\* ACBFile.get_track_data
get_track_data(self, track, disarm_arg, unmask) ==
    IF is_closed(self) THEN Failed(self, "ACBFile is closed", <<>>)
    ELSE IF track.is_stream # 0
    THEN IF self.external_awb = NoneArchive
         THEN Failed(self, "streamed, but there's no external AWB attached", <<>>)
         ELSE LET r == read_rw(self.external_awb, track.cue_id)
                  ev == <<[ev |-> "lookup", what |-> "external"]>>
              IN IF r.status = "error" THEN Failed(self, r.why, ev)
                 ELSE LET g == get_external_disarm(self) IN
                      finish_track_data(g.self, "external",
                          [src |-> "external", cue_id |-> r.cue_id, offset |-> r.offset,
                           size |-> r.size, applied |-> <<>>],
                          g.value, disarm_arg, unmask, ev \o g.events)
    ELSE IF self.embedded_awb = NoneArchive
         THEN Failed(self, "internal, but this ACB file has no internal AWB", <<>>)
         ELSE LET r == read_rw(self.embedded_awb, track.cue_id)
                  ev == <<[ev |-> "lookup", what |-> "embedded"]>>
              IN IF r.status = "error" THEN Failed(self, r.why, ev)
                 ELSE LET g == get_embedded_disarm(self) IN
                      finish_track_data(g.self, "embedded",
                          [src |-> "embedded", cue_id |-> r.cue_id, offset |-> r.offset,
                           size |-> r.size, applied |-> <<>>],
                          g.value, disarm_arg, unmask, ev \o g.events)

close_keeping_ownership(self) ==
    [self   |-> [self EXCEPT !.closed = TRUE],
     events |-> (IF self.acb_handle_owned
                 THEN <<[ev |-> "close", what |-> "acb"]>> ELSE <<>>)
                \o (IF self.awb_handle_owned /\ self.awb_handle # None
                    THEN <<[ev |-> "close", what |-> "awb"]>> ELSE <<>>)]

\* ACBFile.close
close(self) ==
    LET c1 == self.acb_handle_owned
        s1 == IF c1 THEN [self EXCEPT !.acb_handle_owned = FALSE] ELSE self
        c2 == s1.awb_handle_owned /\ s1.awb_handle # None
        s2 == IF c2 THEN [s1 EXCEPT !.awb_handle_owned = FALSE] ELSE s1
    IN [self   |-> [s2 EXCEPT !.closed = TRUE],
        events |-> (IF c1 THEN <<[ev |-> "close", what |-> "acb"]>> ELSE <<>>)
                   \o (IF c2 THEN <<[ev |-> "close", what |-> "awb"]>> ELSE <<>>)]

\* wave_type_ftable.get(enc_type, enc_type), formatted into the f-string
wave_type_ftable_get(enc_type) ==
    IF enc_type = 0 THEN ".adx"
    ELSE IF enc_type = 2 THEN ".hca"
    ELSE IF enc_type = 7 THEN ".vag"
    ELSE IF enc_type = 8 THEN ".at3"
    ELSE IF enc_type = 9 THEN ".bcwav"
    ELSE IF enc_type = 13 THEN ".dsp"
    ELSE Decimal(enc_type)

\* name_gen_default
name_gen_default(track) == track.name \o wave_type_ftable_get(track.enc_type)

extract_unmask_same(no_unmask) == no_unmask

\* unmask=not no_unmask
extract_unmask(no_unmask) == ~no_unmask

swallow_error(status) == "ex_loop"

\* an exception of get_track_data leaves the for loop and the with block
after_track(status) == IF status = "error" THEN "ex_aborted" ELSE "ex_loop"

(***************************************************************************)
(* The containers an ACBFile is opened on.                                 *)
(***************************************************************************)
\* embedded AWB: ids 0 and 1, mix key 7
EmbeddedBlob ==
    [magic |-> AFS2_MAGIC, version |-> <<2, 2, 2>>, file_count |-> 2, alignment |-> 4,
     mix_key |-> 7, cue_ids |-> <<0, 1>>, raw_offs |-> <<16, 21, 32>>]

\* embedded AWB whose second entry (id 2) ends before its aligned start
EmbeddedBlobShort ==
    [magic |-> AFS2_MAGIC, version |-> <<2, 2, 2>>, file_count |-> 2, alignment |-> 4,
     mix_key |-> 7, cue_ids |-> <<0, 2>>, raw_offs |-> <<16, 21, 22>>]

\* external AWB: old format (no mix key), ids 1 and 2
ExternalFile ==
    [magic |-> AFS2_MAGIC, version |-> <<1, 2, 2>>, file_count |-> 2, alignment |-> 4,
     mix_key |-> 0, cue_ids |-> <<1, 2>>, raw_offs |-> <<8, 12, 20>>]

HcaKeys == {None, "", "0x1234,0x5678"}

ApiTracks ==
    [cue_id : 0..MaxCueId, name : {"bgm"}, enc_type : {2}, is_stream : {0, 1}]

\* track lists of one unnamed cue with n waveforms
ExtractTrackLists ==
    UNION { { [k \in 1..n |->
                  [cue_id |-> f[k][1], name |-> "UNKNOWN" \o name_suffix(n, k - 1),
                   enc_type |-> 2, is_stream |-> f[k][2]]]
              : f \in [1..n -> (0..MaxCueId) \X {0, 1}] }
            : n \in 0..MaxTracks }

ACBArgs ==
    [acb_file : {"path", "object"}, extern_awb : {None, "path", "object"},
     hca_keys : HcaKeys, AwbFile : {<<>>, <<EmbeddedBlob>>, <<EmbeddedBlobShort>>},
     awb_bytes : {ExternalFile}, mode : {"api", "extract"}, no_unmask : BOOLEAN]

NoCall == [op |-> "none", status |-> "ok", events |-> <<>>]

Init ==
    /\ args \in ACBArgs
    /\ args.mode = "api" => ~args.no_unmask
    /\ tracks \in (IF args.mode = "api" THEN {<<>>} ELSE ExtractTrackLists)
    /\ acb = ACBFileInit(args)
    /\ pc = (IF args.mode = "api" THEN "live" ELSE "ex_loop")
    /\ last = NoCall
    /\ close_calls = [acb |-> 0, awb |-> 0]
    /\ ctx_built = [embedded |-> 0, external |-> 0]
    /\ ex_log = <<>>
    /\ out_files = <<>>
    /\ AFSIdle
    /\ TLIdle

\* the counters after a call that caused `events`
Counted(events) ==
    /\ close_calls' = [acb |-> close_calls.acb + Count(events, "close", "acb"),
                       awb |-> close_calls.awb + Count(events, "close", "awb")]
    /\ ctx_built' = [embedded |-> ctx_built.embedded + Count(events, "DisarmContext", "embedded"),
                     external |-> ctx_built.external + Count(events, "DisarmContext", "external")]

Frame == UNCHANGED <<afs_vars, tl_vars, tracks, args>>

\* acb.get_track_data(track, disarm, unmask) called by the owner of the object
GetTrackData ==
    /\ pc = "live"
    /\ \E track \in ApiTracks, disarm_arg \in {"True", "False", None}, unmask \in BOOLEAN :
          LET r == get_track_data(acb, track, disarm_arg, unmask) IN
          /\ acb' = r.self
          /\ last' = [op |-> "get_track_data", track |-> track, disarm |-> disarm_arg,
                      unmask |-> unmask, was_closed |-> acb.closed,
                      status |-> r.status, why |-> r.why, buf |-> r.buf,
                      events |-> r.events]
          /\ Counted(r.events)
    /\ UNCHANGED <<pc, ex_log, out_files>>
    /\ Frame

GetEmbeddedDisarm ==
    /\ pc = "live"
    /\ LET g == get_embedded_disarm(acb) IN
          /\ acb' = g.self
          /\ last' = [op |-> "get_embedded_disarm", status |-> "ok", value |-> g.value,
                      events |-> g.events]
          /\ Counted(g.events)
    /\ UNCHANGED <<pc, ex_log, out_files>>
    /\ Frame

GetExternalDisarm ==
    /\ pc = "live"
    /\ LET g == get_external_disarm(acb) IN
          /\ acb' = g.self
          /\ last' = [op |-> "get_external_disarm", status |-> "ok", value |-> g.value,
                      events |-> g.events]
          /\ Counted(g.events)
    /\ UNCHANGED <<pc, ex_log, out_files>>
    /\ Frame

\* the effect of a close() call made by `op`
Closing(op) ==
    LET c == close(acb) IN
    /\ acb' = c.self
    /\ last' = [op |-> op, status |-> "ok", was_closed |-> acb.closed, events |-> c.events]
    /\ Counted(c.events)

Close ==
    /\ pc = "live"
    /\ Closing("close")
    /\ UNCHANGED <<pc, ex_log, out_files>>
    /\ Frame

\* __exit__ of a with block around a caller-driven object
Exit ==
    /\ pc = "live"
    /\ Closing("__exit__")
    /\ UNCHANGED <<pc, ex_log, out_files>>
    /\ Frame

\* __del__: the object is collected; nothing can be called on it afterwards
Del ==
    /\ pc \in {"live", "ex_done", "ex_aborted"}
    /\ Closing("__del__")
    /\ pc' = "deleted"
    /\ UNCHANGED <<ex_log, out_files>>
    /\ Frame

\* extract_acb: one pass of `for track in acb.track_list.tracks`.  The output
\* file is opened (created empty) before get_track_data runs; an exception
\* leaves the loop and the with block, whose __exit__ closes the ACBFile.
ExtractTrack ==
    /\ pc = "ex_loop"
    /\ Len(ex_log) < Len(tracks)
    /\ LET n == Len(ex_log) + 1
           track == tracks[n]
           unmask == extract_unmask(args.no_unmask)
           r == get_track_data(acb, track, None, unmask)
           c == close(r.self)
       IN /\ ex_log' = Append(ex_log, n)
          /\ out_files' = Append(out_files,
                 [name |-> name_gen_default(track),
                  data |-> IF r.status = "ok" THEN <<r.buf>> ELSE <<>>])
          /\ pc' = after_track(r.status)
          /\ acb' = IF after_track(r.status) = "ex_aborted" THEN c.self ELSE r.self
          /\ last' = [op |-> "get_track_data", track |-> track, disarm |-> None,
                      unmask |-> unmask, was_closed |-> acb.closed,
                      status |-> r.status, why |-> r.why, buf |-> r.buf,
                      events |-> r.events]
          /\ Counted(IF after_track(r.status) = "ex_aborted"
                     THEN r.events \o c.events ELSE r.events)
    /\ Frame

\* extract_acb: the loop is exhausted, the with block closes the ACBFile
ExtractFinish ==
    /\ pc = "ex_loop"
    /\ Len(ex_log) = Len(tracks)
    /\ Closing("__exit__")
    /\ pc' = "ex_done"
    /\ UNCHANGED <<ex_log, out_files>>
    /\ Frame

Next ==
    \/ GetTrackData
    \/ GetEmbeddedDisarm
    \/ GetExternalDisarm
    \/ Close
    \/ Exit
    \/ Del
    \/ ExtractTrack
    \/ ExtractFinish

Spec == Init /\ [][Next]_vars

(***************************************************************************)
(* Properties of ACBFile and extract_acb (checked under Spec).             *)
(***************************************************************************)
IsRetrieval == last.op = "get_track_data"

CloseOps == {"close", "__exit__", "__del__"}

\* the archive a track selects, and that archive's context attribute
SelectedArchive(track) ==
    IF track.is_stream # 0 THEN acb.external_awb ELSE acb.embedded_awb

SelectedContext(track) ==
    IF track.is_stream # 0 THEN acb.external_disarm ELSE acb.embedded_disarm

\* the archive holds stored bytes for cue_id: the first entry with that id,
\* of a length that can be read
Stored(archive, cue_id) ==
    /\ archive # NoneArchive
    /\ \E k \in 1..Len(archive.files) :
          /\ archive.files[k].cue_id = cue_id
          /\ \A j \in 1..(k - 1) : archive.files[j].cue_id # cue_id
          /\ archive.files[k].size >= 0

\* buf is the stored range of cue_id in the archive, with no transform applied
StoredBytes(buf, archive, cue_id) ==
    /\ buf # NoBuf
    /\ buf.applied = <<>>
    /\ \E k \in 1..Len(archive.files) :
          /\ archive.files[k].cue_id = cue_id
          /\ buf.offset = archive.files[k].offset
          /\ buf.size = archive.files[k].size

ContextAvailable(track) == SelectedContext(track).kind = "DisarmContext"

TransformCalls == CountEv(last.events, "disarm")

TransformArgs ==
    {last.events[k].arg : k \in {n \in 1..Len(last.events) : last.events[n].ev = "disarm"}}

ExtractPassesNotNoUnmask ==
    (args.mode = "extract" /\ IsRetrieval) => last.unmask = ~args.no_unmask

C3_FailsFirst ==
    (IsRetrieval /\ (last.was_closed \/ SelectedArchive(last.track) = NoneArchive)) =>
        /\ last.status = "error"
        /\ last.buf = NoBuf
        /\ last.events = <<>>

\* C3: get_track_data on a closed ACBFile, or for a track whose selected
\* archive is absent, fails before any lookup, context construction or
\* transform; a closed ACBFile stays closed.
C3_ClosedOrAbsent ==
    /\ []C3_FailsFirst
    /\ [][acb.closed => acb'.closed]_vars

\* a retrieval refused on a closed container although the archive holds the
\* id and a context had been built
C3_Witness ==
    /\ IsRetrieval
    /\ last.was_closed
    /\ last.status = "error"
    /\ Stored(SelectedArchive(last.track), last.track.cue_id)
    /\ ContextAvailable(last.track)

OwnedCount(name) == IF name = "path" THEN 1 ELSE 0

C4_Released ==
    /\ close_calls.acb <= OwnedCount(args.acb_file)
    /\ close_calls.awb <= OwnedCount(args.extern_awb)
    /\ acb.closed =>
          /\ close_calls.acb = OwnedCount(args.acb_file)
          /\ close_calls.awb = OwnedCount(args.extern_awb)
    /\ (last.op \in CloseOps /\ last.was_closed) =>
          (last.status = "ok" /\ last.events = <<>>)

\* C4: the first close closes exactly the sources opened from paths, once
\* each, and no caller-supplied source; a close of a closed ACBFile (by
\* close, __exit__ or __del__) closes nothing, changes no attribute and does
\* not fail.
C4_CloseIdempotent ==
    /\ []C4_Released
    /\ [][(acb.closed /\ last'.op \in CloseOps) =>
              (acb' = acb /\ close_calls' = close_calls /\ last'.status = "ok")]_vars

\* a second close of an ACBFile that opened its container from a path and
\* was handed an open external archive
C4_Witness ==
    /\ last.op = "close"
    /\ last.was_closed
    /\ args.acb_file = "path"
    /\ args.extern_awb = "object"
    /\ close_calls = [acb |-> 1, awb |-> 0]

C8_FailureIsLast ==
    /\ Len(out_files) = Len(ex_log)
    /\ \A k \in 1..Len(ex_log) : ex_log[k] = k
    /\ \A k \in 1..Len(out_files) :
          /\ out_files[k].name = name_gen_default(tracks[k])
          /\ out_files[k].data = <<>> => (k = Len(out_files) /\ pc \in {"ex_aborted", "deleted"})
    /\ pc = "ex_aborted" =>
          (last.status = "error" /\ out_files[Len(out_files)].data = <<>>)
    /\ pc = "ex_done" => Len(ex_log) = Len(tracks)

\* C8: extract_acb retrieves tracks in track-list order; a failed retrieval
\* ends the extraction: it is the last retrieval, and no later track is
\* retrieved or given an output file.
C8_AbortOnFailure ==
    /\ []C8_FailureIsLast
    /\ [][(pc = "ex_aborted" \/ \E k \in 1..Len(out_files) : out_files[k].data = <<>>) =>
              (ex_log' = ex_log /\ out_files' = out_files)]_vars

\* the first of two tracks failed; the second was never retrieved
C8_Witness ==
    /\ pc = "ex_aborted"
    /\ Len(tracks) = 2
    /\ ex_log = <<1>>
    /\ Len(out_files) = 1
    /\ last.status = "error"

KeyMaterial == acb.hca_keys # None /\ acb.hca_keys # ""

C10_Contexts ==
    /\ ctx_built.embedded <= 1
    /\ ctx_built.external <= 1
    /\ acb.embedded_disarm # Uninitialized =>
          /\ acb.embedded_disarm = NoneCtx <=>
                (~KeyMaterial \/ acb.embedded_awb = NoneArchive)
          /\ acb.embedded_disarm # NoneCtx =>
                /\ acb.embedded_disarm.key = acb.hca_keys
                /\ acb.embedded_disarm.subkey = acb.embedded_awb.mix_key
                /\ ctx_built.embedded = 1
    /\ acb.external_disarm # Uninitialized =>
          /\ acb.external_disarm = NoneCtx <=>
                (~KeyMaterial \/ acb.external_awb = NoneArchive)
          /\ acb.external_disarm # NoneCtx =>
                /\ acb.external_disarm.key = acb.hca_keys
                /\ acb.external_disarm.subkey = acb.external_awb.mix_key
                /\ ctx_built.external = 1
    /\ (IsRetrieval /\ last.status = "ok") =>
          SelectedContext(last.track) # Uninitialized

\* C10: each archive's context is constructed at most once, on first use,
\* from the key material and that archive's mix key; it is None without key
\* material or without the archive; once resolved it never changes; a
\* retrieval against one archive leaves the other archive's context alone.
C10_ContextsCached ==
    /\ []C10_Contexts
    /\ [][/\ acb.embedded_disarm # Uninitialized =>
                acb'.embedded_disarm = acb.embedded_disarm
          /\ acb.external_disarm # Uninitialized =>
                acb'.external_disarm = acb.external_disarm
          /\ last'.op = "get_track_data" =>
                IF last'.track.is_stream # 0
                THEN /\ acb'.embedded_disarm = acb.embedded_disarm
                     /\ ctx_built'.embedded = ctx_built.embedded
                ELSE /\ acb'.external_disarm = acb.external_disarm
                     /\ ctx_built'.external = ctx_built.external]_vars

\* both contexts were built, and the last retrieval applied the transform
\* with a context it did not have to build
C10_Witness ==
    /\ ctx_built = [embedded |-> 1, external |-> 1]
    /\ IsRetrieval
    /\ last.status = "ok"
    /\ TransformCalls = 1
    /\ CountEv(last.events, "DisarmContext") = 0

====
